---- MODULE Spec2Model ----
(***************************************************************************)
(* Model of the degenbounty agent (src/unnamed/part_001, the latest        *)
(* revision of index.js): the claim reconciliation loop built on           *)
(* setInterval, the shared ledger session (provider, contract,             *)
(* lastProcessedBlock) and the admission pipeline it drives.               *)
(*                                                                         *)
(* JavaScript runs each callback to completion between two awaits, so one  *)
(* action of the model is the code executed from the resumption of one     *)
(* await up to the suspension at the next one.                             *)
(***************************************************************************)
EXTENDS Integers, Sequences, FiniteSets, TLC

\* ---------------------------------------------------------------- bounds
MaxHeight == 2           \* blocks the ledger mines in a run
MaxEventsPerBlock == 1   \* ClaimCreated events in one block
MaxTicks == 2            \* interval callbacks that may be in flight at once
MaxErrors == 2           \* failures of external calls injected in a run
MaxCreates == 2          \* createBounty invocations in a run
MaxBounties == 2         \* bounties on the ledger
MaxClock == 1            \* seconds that pass in a run
MaxRequests == 2         \* GET /current-bounty requests in a run
MaxRows == 2             \* rows the store holds when the requests start
MaxFallbackCalls == 11   \* calls of the fallback generator in a run

\* ------------------------------------------------------ program constants
Threshold == 7           \* score >= 7
ThresholdEarlier == 9    \* score >= 9 (src/unnamed/part_000)
Undefined == -1          \* `let lastProcessedBlock;` before setupClaimListener

Ticks == 1..MaxTicks
BountyIds == {1}

\* Addresses are strings; a string is a sequence of characters.
WalletAddress == <<"A", "b">>
Issuers == {<<"A", "b">>, <<"a", "b">>, <<"C", "d">>}

\* error.code values of a failed provider / contract call (ethers)
ErrorCodes == {"NETWORK_ERROR", "UNKNOWN_ERROR", "TIMEOUT"}

VARIABLES
    chain,               \* the ledger: chain[h] = ClaimCreated events of block h
    claimAccepted,       \* the ledger: claims the contract has accepted
    alive,               \* the process is running
    main,                \* position of the app.listen callback
    provider,            \* let provider  (n = the n-th JsonRpcProvider, 0 = unset)
    contract,            \* let contract  (the provider it is bound to)
    lastProcessedBlock,  \* let lastProcessedBlock
    tick,                \* the interval callbacks: tick[t] is one invocation
    errors,              \* failures injected so far
    startHeight,         \* history: height read by setupClaimListener
    handed,              \* history: claims for which the pipeline was entered
    reconnectDue,        \* history: a poll failed on connectivity and no
                         \* initializeContract has completed since
    lastDone,            \* history: the callback that returned last
    covered,             \* history: heights inside the range of a callback
                         \* that has committed
    failedSettled,       \* history: claims whose settlement failed in a
                         \* callback that has committed since
    verif,               \* one pass of the admission pipeline over one claim
    db,                  \* the store: rows of the table bounties
    bounties,            \* the ledger: bounties[i + 1] is bounty i
    create,              \* the createBounty invocations
    usedFallbackIndices, \* const usedFallbackIndices = new Set()
    backfill,            \* the GET /current-bounty requests
    now,                 \* the store's clock (CURRENT_TIMESTAMP), in seconds
    fallbackLog          \* history: what the fallback generator has returned

vars == <<chain, claimAccepted, alive, main, provider, contract,
          lastProcessedBlock, tick, errors, startHeight, handed, reconnectDue,
          lastDone, failedSettled, covered, verif, db, bounties, create,
          usedFallbackIndices, backfill, now, fallbackLog>>

ledgerVars == <<chain, claimAccepted>>
sessionVars == <<provider, contract>>
historyVars == <<startHeight, handed, reconnectDue, lastDone, failedSettled,
                 covered>>
\* the history written when a callback commits
commitVars == <<failedSettled, covered>>

\* the reconciliation loop and its session
pollVars == <<chain, claimAccepted, alive, main, provider, contract,
              lastProcessedBlock, tick, startHeight, handed, reconnectDue,
              lastDone, failedSettled, covered>>
\* bounty issuance, the store and the identifier backfill
issuanceVars == <<db, bounties, create, usedFallbackIndices, backfill, now,
                  fallbackLog>>
\* the fallback generator's memory
fallbackVars == <<usedFallbackIndices, fallbackLog>>
\* what the reconciliation loop never touches
otherVars == <<verif, issuanceVars>>

\* ------------------------------------------------------------- the ledger

RECURSIVE Flatten(_, _, _)
\* events of blocks from..to of ch, in ledger order
Flatten(ch, from, to) ==
    IF from > to THEN <<>> ELSE ch[from] \o Flatten(ch, from + 1, to)

\* provider.getBlockNumber()
getBlockNumber == Len(chain)

AllEvents == Flatten(chain, 1, Len(chain))

\* contract.queryFilter("ClaimCreated", fromBlock, toBlock)
queryFilter(fromBlock, toBlock) ==
    Flatten(chain, fromBlock, IF toBlock > Len(chain) THEN Len(chain) ELSE toBlock)

\* the contents a new block may have: up to MaxEventsPerBlock events
BlockShapes ==
    UNION {[1..n -> BountyIds \X Issuers] : n \in 0..MaxEventsPerBlock}

\* the ledger mines a block; claim ids are assigned in emission order
MineBlock ==
    /\ Len(chain) < MaxHeight
    /\ \E shape \in BlockShapes :
         LET base == Len(AllEvents)
             blk == [k \in 1..Len(shape) |->
                       [id |-> base + k,
                        bountyId |-> shape[k][1],
                        bountyIssuer |-> shape[k][2],
                        blockNumber |-> Len(chain) + 1]]
         IN chain' = Append(chain, blk)
    /\ UNCHANGED <<claimAccepted, alive, main, sessionVars, lastProcessedBlock,
                   tick, errors, historyVars>>
    /\ UNCHANGED otherVars

\* ------------------------------------------------------------ pure helpers
LowerChar(c) ==
    CASE c = "A" -> "a" [] c = "B" -> "b" [] c = "C" -> "c" [] c = "D" -> "d"
      [] OTHER -> c

\* String.prototype.toLowerCase
toLowerCase(s) == [i \in DOMAIN s |-> LowerChar(s[i])]


\* variant: the addresses are compared as they are, without toLowerCase()
IsOwnedExact(bountyIssuer) == bountyIssuer = WalletAddress

\* bountyIssuer.toLowerCase() !== wallet.address.toLowerCase() is false
IsOwned(bountyIssuer) == toLowerCase(bountyIssuer) = toLowerCase(WalletAddress)

\* variant: the range starts two blocks above the cursor
FromBlockSkipsOne(cursor) == cursor + 2

\* lastProcessedBlock + 1, the second argument of queryFilter
FromBlock(cursor) == cursor + 1

\* variant: no test of latestBlock against the cursor
ShouldProcessAlways(latestBlock, cursor) == TRUE

\* variant: if (latestBlock >= lastProcessedBlock)
ShouldProcessAtOrAhead(latestBlock, cursor) == latestBlock >= cursor

\* if (latestBlock > lastProcessedBlock)
ShouldProcess(latestBlock, cursor) == latestBlock > cursor

\* error.code === "NETWORK_ERROR" || error.code === "UNKNOWN_ERROR"
IsReconnectCode(code) == code = "NETWORK_ERROR" \/ code = "UNKNOWN_ERROR"

Digits == {"0", "1", "2", "3", "4", "5", "6", "7", "8", "9"}
DigitValue(c) ==
    CASE c = "0" -> 0 [] c = "1" -> 1 [] c = "2" -> 2 [] c = "3" -> 3
      [] c = "4" -> 4 [] c = "5" -> 5 [] c = "6" -> 6 [] c = "7" -> 7
      [] c = "8" -> 8 [] c = "9" -> 9

RECURSIVE DigitPrefix(_, _, _)
\* value of the longest run of digits of s starting at i, acc so far
DigitPrefix(s, i, acc) ==
    IF i > Len(s) \/ s[i] \notin Digits THEN acc
    ELSE DigitPrefix(s, i + 1, acc * 10 + DigitValue(s[i]))

RECURSIVE SkipSpaces(_, _)
SkipSpaces(s, i) ==
    IF i <= Len(s) /\ s[i] = " " THEN SkipSpaces(s, i + 1) ELSE i

\* parseInt(string): leading white space, an optional sign, then the longest
\* prefix of digits; NaN when there is no digit
parseInt(s) ==
    LET i == SkipSpaces(s, 1)
        neg == i <= Len(s) /\ s[i] = "-"
        j == IF i <= Len(s) /\ s[i] \in {"-", "+"} THEN i + 1 ELSE i
    IN IF j > Len(s) \/ s[j] \notin Digits
       THEN [nan |-> TRUE, value |-> 0]
       ELSE [nan |-> FALSE,
             value |-> IF neg THEN 0 - DigitPrefix(s, j, 0) ELSE DigitPrefix(s, j, 0)]

\* variant: const decision = score > threshold
DecisionAbove(score, threshold) == ~score.nan /\ score.value > threshold

\* const decision = score >= threshold   (any comparison with NaN is false)
DecisionAt(score, threshold) == ~score.nan /\ score.value >= threshold

\* const decision = score >= 7
Decision(score) == DecisionAt(score, Threshold)

\* what resolving the evidence of a claim can give
Evidence == {"image", "noImage", "tokenURIThrows", "fetchThrows"}

\* message.content of the scoring reply; "throws" is a failed call or a reply
\* without choices[0].message
OracleReplies ==
    {<<"8">>, <<"7">>, <<"6">>, <<"1", "0">>, <<"N", "/", "A">>, <<>>,
     <<"8", "/", "1", "0">>, <<" ", "9">>, <<"9">>, <<"1", "1">>}

\* "Rate the submission on a scale of 1-10"
ScaleMax == 10

\* verifyClaimWithAI(bountyTitle, bountyDescription, claimId), as a function
\* of what its external calls return
verifyClaimWithAI(evidence, oracleThrows, content) ==
    IF evidence # "image" THEN FALSE
    ELSE IF oracleThrows THEN FALSE
    ELSE Decision(parseInt(content))

\* the values verifyClaimWithAI can return
VerifyResults ==
    {verifyClaimWithAI(evidence, oracleThrows, content) :
        evidence \in Evidence, oracleThrows \in BOOLEAN, content \in OracleReplies}

\* ------------------------------------------------------- the poll callback
\* one invocation of the setInterval callback; idle = not running
NewTick ==
    [pc |-> "idle", fromBlock |-> 0, latestBlock |-> Undefined, idx |-> 0,
     outcomes |-> <<>>, pipeline |-> <<>>, unsettled |-> {}]

\* what is remembered of the callback that last returned
Done(r, result) == [result |-> result, outcomes |-> r.outcomes]

\* the events the tick got from queryFilter
TickEvents(r) == queryFilter(r.fromBlock, r.latestBlock)

\* variant: the loop jumps to the last owned event at or after i
NextOwnedLast(evs, i) ==
    IF \E j \in i..Len(evs) : IsOwned(evs[j].bountyIssuer)
    THEN CHOOSE j \in i..Len(evs) :
            /\ IsOwned(evs[j].bountyIssuer)
            /\ \A k \in (j + 1)..Len(evs) : ~IsOwned(evs[k].bountyIssuer)
    ELSE Len(evs) + 1

\* index of the first owned event of evs at or after i, Len(evs)+1 if none
NextOwned(evs, i) ==
    IF \E j \in i..Len(evs) : IsOwned(evs[j].bountyIssuer)
    THEN CHOOSE j \in i..Len(evs) :
            /\ IsOwned(evs[j].bountyIssuer)
            /\ \A k \in i..(j - 1) : ~IsOwned(evs[k].bountyIssuer)
    ELSE Len(evs) + 1

Skipped(n) == [k \in 1..n |-> "skipped"]

\* The callback returns.
EndTick(t, r, result) ==
    /\ tick' = [tick EXCEPT ![t] = NewTick]
    /\ lastDone' = Done(r, result)

\* variant: lastProcessedBlock = latestBlock is written before the loop, so
\* also when an owned event is still to be handled
ContinueLoopEarlyCommit(t, r, i) ==
    LET evs == TickEvents(r)
        j == NextOwned(evs, i)
    IN IF j <= Len(evs)
       THEN /\ tick' = [tick EXCEPT ![t] =
                  [r EXCEPT !.pc = "bounties", !.idx = j,
                            !.outcomes = @ \o Skipped(j - i),
                            !.pipeline = Append(@, evs[j].id)]]
            /\ handed' = handed \cup {evs[j].id}
            /\ lastProcessedBlock' = r.latestBlock
            /\ UNCHANGED <<lastDone, commitVars>>
       ELSE /\ EndTick(t, [r EXCEPT !.outcomes = @ \o Skipped(j - i)], "committed")
            /\ lastProcessedBlock' = r.latestBlock
            /\ failedSettled' = failedSettled \cup r.unsettled
            /\ covered' = covered \cup (r.fromBlock..r.latestBlock)
            /\ UNCHANGED handed

\* The for loop from event i on, up to the next await: events that are not
\* owned are skipped (continue); at the first owned one contract.bounties is
\* called; when the events are exhausted lastProcessedBlock = latestBlock.
ContinueLoop(t, r, i) ==
    LET evs == TickEvents(r)
        j == NextOwned(evs, i)
    IN IF j <= Len(evs)
       THEN /\ tick' = [tick EXCEPT ![t] =
                  [r EXCEPT !.pc = "bounties", !.idx = j,
                            !.outcomes = @ \o Skipped(j - i),
                            !.pipeline = Append(@, evs[j].id)]]
            /\ handed' = handed \cup {evs[j].id}
            /\ UNCHANGED <<lastProcessedBlock, lastDone, commitVars>>
       ELSE /\ EndTick(t, [r EXCEPT !.outcomes = @ \o Skipped(j - i)], "committed")
            /\ lastProcessedBlock' = r.latestBlock
            /\ failedSettled' = failedSettled \cup r.unsettled
            /\ covered' = covered \cup (r.fromBlock..r.latestBlock)
            /\ UNCHANGED handed

\* The current event is finished with the given outcome; the loop goes on.
FinishEvent(t, outcome) ==
    ContinueLoop(t, [tick[t] EXCEPT !.outcomes = Append(@, outcome)],
                 tick[t].idx + 1)

\* catch (error) of the callback: log, and reconnect on a network error.
\* initializeContract runs up to its await: a new provider is assigned.
PollCatch(t, code) ==
    /\ reconnectDue' = TRUE
    /\ IF IsReconnectCode(code)
       THEN /\ tick' = [tick EXCEPT ![t].pc = "initializeContract"]
            /\ provider' = provider + 1
            /\ UNCHANGED <<contract, lastDone>>
       ELSE /\ EndTick(t, tick[t], "error")
            /\ UNCHANGED sessionVars

\* setInterval fires: the callback starts and calls provider.getBlockNumber().
\* Nothing stops a firing while an earlier callback is still suspended.
TickFire(t) ==
    /\ alive /\ main = "running"
    /\ tick[t].pc = "idle"
    /\ \A u \in Ticks : u < t => tick[u].pc # "idle"
    /\ tick' = [tick EXCEPT ![t].pc = "getBlockNumber"]
    /\ UNCHANGED <<ledgerVars, alive, main, sessionVars, lastProcessedBlock,
                   errors, historyVars>>
    /\ UNCHANGED otherVars

\* provider.getBlockNumber() returns: compare with the cursor and, if the
\* ledger is ahead, call contract.queryFilter for cursor+1 .. latestBlock.
GetBlockNumberReturn(t) ==
    /\ alive /\ tick[t].pc = "getBlockNumber"
    /\ LET latestBlock == getBlockNumber
       IN IF ShouldProcess(latestBlock, lastProcessedBlock)
          THEN /\ tick' = [tick EXCEPT ![t].pc = "queryFilter",
                                       ![t].latestBlock = latestBlock,
                                       ![t].fromBlock = FromBlock(lastProcessedBlock)]
               /\ UNCHANGED lastDone
          ELSE EndTick(t, [tick[t] EXCEPT !.latestBlock = latestBlock], "noop")
    /\ UNCHANGED <<ledgerVars, alive, main, sessionVars, lastProcessedBlock,
                   errors, startHeight, handed, reconnectDue>>
    /\ UNCHANGED <<commitVars, otherVars>>

\* provider.getBlockNumber() throws
GetBlockNumberThrows(t) ==
    /\ alive /\ tick[t].pc = "getBlockNumber"
    /\ errors < MaxErrors /\ errors' = errors + 1
    /\ \E code \in ErrorCodes : PollCatch(t, code)
    /\ UNCHANGED <<ledgerVars, alive, main, lastProcessedBlock, startHeight,
                   handed>>
    /\ UNCHANGED <<commitVars, otherVars>>

\* contract.queryFilter returns the events: the for loop starts
QueryFilterReturn(t) ==
    /\ alive /\ tick[t].pc = "queryFilter"
    /\ ContinueLoop(t, tick[t], 1)
    /\ UNCHANGED <<ledgerVars, alive, main, sessionVars, errors, startHeight,
                   reconnectDue>>
    /\ UNCHANGED otherVars

\* contract.queryFilter throws
QueryFilterThrows(t) ==
    /\ alive /\ tick[t].pc = "queryFilter"
    /\ errors < MaxErrors /\ errors' = errors + 1
    /\ \E code \in ErrorCodes : PollCatch(t, code)
    /\ UNCHANGED <<ledgerVars, alive, main, lastProcessedBlock, startHeight,
                   handed>>
    /\ UNCHANGED <<commitVars, otherVars>>

\* the event the for loop is at
CurrentEvent(t) == TickEvents(tick[t])[tick[t].idx]

\* catch (error) around acceptClaim and tx.wait(): "Error accepting claim",
\* and the loop goes on with the next event
FinishUnsettled(t) ==
    ContinueLoop(t, [tick[t] EXCEPT !.outcomes = Append(@, "failed"),
                                    !.unsettled = @ \cup {CurrentEvent(t).id}],
                 tick[t].idx + 1)

\* contract.bounties(bountyId) returns: verifyClaimWithAI is called
BountiesReturn(t) ==
    /\ alive /\ tick[t].pc = "bounties"
    /\ tick' = [tick EXCEPT ![t].pc = "verifyClaimWithAI"]
    /\ UNCHANGED <<ledgerVars, alive, main, sessionVars, lastProcessedBlock,
                   errors, historyVars>>
    /\ UNCHANGED otherVars

\* variant: no try around the handling of one event, so a failed
\* contract.bounties call lands in the catch of the whole callback
BountiesThrowsUncaught(t) ==
    /\ alive /\ tick[t].pc = "bounties"
    /\ errors < MaxErrors /\ errors' = errors + 1
    /\ \E code \in ErrorCodes : PollCatch(t, code)
    /\ UNCHANGED <<ledgerVars, alive, main, lastProcessedBlock, startHeight,
                   handed>>
    /\ UNCHANGED <<commitVars, otherVars>>

\* contract.bounties(bountyId) throws: "Error processing claim"
BountiesThrows(t) ==
    /\ alive /\ tick[t].pc = "bounties"
    /\ errors < MaxErrors /\ errors' = errors + 1
    /\ FinishEvent(t, "failed")
    /\ UNCHANGED <<ledgerVars, alive, main, sessionVars, startHeight,
                   reconnectDue>>
    /\ UNCHANGED otherVars

\* verifyClaimWithAI returns isValid: contract.acceptClaim is called, or the
\* claim "failed verification"
VerifyReturn(t) ==
    /\ alive /\ tick[t].pc = "verifyClaimWithAI"
    /\ \E isValid \in VerifyResults :
         IF isValid
         THEN /\ tick' = [tick EXCEPT ![t].pc = "acceptClaim"]
              /\ UNCHANGED <<lastProcessedBlock, handed, lastDone, commitVars>>
         ELSE FinishEvent(t, "rejected")
    /\ UNCHANGED <<ledgerVars, alive, main, sessionVars, errors, startHeight,
                   reconnectDue>>
    /\ UNCHANGED otherVars

\* contract.acceptClaim(bountyId, id) returns the transaction: tx.wait()
AcceptClaimReturn(t) ==
    /\ alive /\ tick[t].pc = "acceptClaim"
    /\ CurrentEvent(t).id \notin claimAccepted
    /\ tick' = [tick EXCEPT ![t].pc = "wait"]
    /\ UNCHANGED <<ledgerVars, alive, main, sessionVars, lastProcessedBlock,
                   errors, historyVars>>
    /\ UNCHANGED otherVars

\* contract.acceptClaim throws (the contract rejects a claim it has already
\* accepted; any other submission failure): "Error accepting claim"
AcceptClaimThrows(t) ==
    /\ alive /\ tick[t].pc = "acceptClaim"
    /\ IF CurrentEvent(t).id \in claimAccepted
       THEN UNCHANGED errors
       ELSE errors < MaxErrors /\ errors' = errors + 1
    /\ FinishUnsettled(t)
    /\ UNCHANGED <<ledgerVars, alive, main, sessionVars, startHeight,
                   reconnectDue>>
    /\ UNCHANGED otherVars

\* tx.wait() returns: the acceptance is on the ledger
WaitReturn(t) ==
    /\ alive /\ tick[t].pc = "wait"
    /\ CurrentEvent(t).id \notin claimAccepted
    /\ claimAccepted' = claimAccepted \cup {CurrentEvent(t).id}
    /\ FinishEvent(t, "settled")
    /\ UNCHANGED <<chain, alive, main, sessionVars, errors, startHeight,
                   reconnectDue>>
    /\ UNCHANGED otherVars

\* tx.wait() throws (revert, e.g. accepted meanwhile by another transaction)
WaitThrows(t) ==
    /\ alive /\ tick[t].pc = "wait"
    /\ IF CurrentEvent(t).id \in claimAccepted
       THEN UNCHANGED errors
       ELSE errors < MaxErrors /\ errors' = errors + 1
    /\ FinishUnsettled(t)
    /\ UNCHANGED <<ledgerVars, alive, main, sessionVars, startHeight,
                   reconnectDue>>
    /\ UNCHANGED otherVars

\* initializeContract, called from the catch block, passes its connection
\* test: the wallet and the contract are bound to the current provider
ReconnectReturn(t) ==
    /\ alive /\ tick[t].pc = "initializeContract"
    /\ contract' = provider
    /\ reconnectDue' = FALSE
    /\ EndTick(t, tick[t], "reconnected")
    /\ UNCHANGED <<ledgerVars, alive, main, provider, lastProcessedBlock,
                   errors, startHeight, handed>>
    /\ UNCHANGED <<commitVars, otherVars>>

\* initializeContract throws "Failed to connect to RPC endpoint" inside the
\* catch block: the rejection leaves the callback unhandled. Depending on the
\* runtime's unhandled-rejection mode the process ends or only warns.
ReconnectThrows(t) ==
    /\ alive /\ tick[t].pc = "initializeContract"
    /\ errors < MaxErrors /\ errors' = errors + 1
    /\ EndTick(t, tick[t], "unhandled")
    /\ alive' \in BOOLEAN
    /\ UNCHANGED <<ledgerVars, main, sessionVars, lastProcessedBlock,
                   startHeight, handed, reconnectDue>>
    /\ UNCHANGED <<commitVars, otherVars>>

\* ----------------------------------------------------------------- startup
\* app.listen callback: initializeContract() up to its await
StartInitialize ==
    /\ alive /\ main = "start"
    /\ provider' = provider + 1
    /\ main' = "initializeContract"
    /\ UNCHANGED <<ledgerVars, alive, contract, lastProcessedBlock, tick,
                   errors, historyVars>>
    /\ UNCHANGED otherVars

\* initializeContract completes; setupClaimListener calls getBlockNumber
StartInitializeReturn ==
    /\ alive /\ main = "initializeContract"
    /\ contract' = provider
    /\ main' = "setupClaimListener"
    /\ UNCHANGED <<ledgerVars, alive, provider, lastProcessedBlock, tick,
                   errors, historyVars>>
    /\ UNCHANGED otherVars

\* initializeContract or the first getBlockNumber throws: the app.listen
\* callback rejects and the listener is never installed
StartThrows ==
    /\ alive /\ main \in {"initializeContract", "setupClaimListener"}
    /\ errors < MaxErrors /\ errors' = errors + 1
    /\ main' = "failed"
    /\ alive' \in BOOLEAN
    /\ UNCHANGED <<ledgerVars, sessionVars, lastProcessedBlock, tick, historyVars>>
    /\ UNCHANGED otherVars

\* variant: the cursor starts at block 0 instead of the current height
setupClaimListenerFromGenesis ==
    /\ alive /\ main = "setupClaimListener"
    /\ lastProcessedBlock' = 0
    /\ startHeight' = getBlockNumber
    /\ main' = "running"
    /\ UNCHANGED <<ledgerVars, alive, sessionVars, tick, errors, handed,
                   reconnectDue, lastDone>>
    /\ UNCHANGED <<commitVars, otherVars>>

\* lastProcessedBlock = await provider.getBlockNumber(); setInterval(...)
setupClaimListener ==
    /\ alive /\ main = "setupClaimListener"
    /\ lastProcessedBlock' = getBlockNumber
    /\ startHeight' = getBlockNumber
    /\ main' = "running"
    /\ UNCHANGED <<ledgerVars, alive, sessionVars, tick, errors, handed,
                   reconnectDue, lastDone>>
    /\ UNCHANGED <<commitVars, otherVars>>

\* ------------------------------------- one pass of the admission pipeline
\* verifyClaimWithAI step by step, followed by what its caller does with the
\* result, for one claim. Two revisions of the function are in the source:
\* part_000 asks for score >= 9 and reads the image's content type and
\* length before scoring, part_001 asks for score >= 7 and does not.
Revisions == {"part_000", "part_001"}

ThresholdOf(rev) == IF rev = "part_000" THEN ThresholdEarlier ELSE Threshold

NoScore == [nan |-> TRUE, value |-> 0]

\* no pass is running
IdleVerif ==
    [pc |-> "idle", rev |-> "part_001", content |-> <<>>, failure |-> "",
     metadata |-> "none", descriptor |-> "none", consulted |-> FALSE, score |-> NoScore,
     isValid |-> FALSE, submitted |-> 0, accepted |-> FALSE]

\* the pass has verifyClaimWithAI's result
Returned(r) == r.pc \in {"acceptClaim", "wait", "done"}

\* variant: the caller submits acceptClaim whatever verifyClaimWithAI returned
AfterVerifyAlwaysAccept(r, isValid) ==
    [r EXCEPT !.isValid = isValid, !.pc = "acceptClaim", !.submitted = @ + 1]

\* const isValid = await verifyClaimWithAI(...); if (isValid) the caller
\* calls contract.acceptClaim, else the claim "failed verification"
AfterVerify(r, isValid) ==
    IF isValid
    THEN [r EXCEPT !.isValid = TRUE, !.pc = "acceptClaim", !.submitted = @ + 1]
    ELSE [r EXCEPT !.isValid = FALSE, !.pc = "done"]

\* variant: the catch block returns true
VerifyCatchAccepts(r, failure) == AfterVerify([r EXCEPT !.failure = failure], TRUE)

\* catch (error) { console.error("AI verification error"); return false; }
VerifyCatch(r, failure) == AfterVerify([r EXCEPT !.failure = failure], FALSE)

\* the scoring request is sent: fetch("https://openrouter.ai/...")
CallOracle(r) == [r EXCEPT !.pc = "fetchOracle", !.consulted = TRUE]

\* variant: no check of metadata.image
AfterMetadataUnchecked(r, image) ==
    IF r.rev = "part_000" THEN [r EXCEPT !.pc = "fetchImage"] ELSE CallOracle(r)

\* const imageUrl = metadata.image; if (!imageUrl) return false; then
\* part_000 fetches the image, part_001 sends the scoring request
AfterMetadata(r, image) ==
    IF ~image THEN AfterVerify([r EXCEPT !.failure = "noImage"], FALSE)
    ELSE IF r.rev = "part_000" THEN [r EXCEPT !.pc = "fetchImage"]
    ELSE CallOracle(r)

VerifyFrame == UNCHANGED <<pollVars, errors, issuanceVars>>

\* nftContract.tokenURI(claimId) returns: fetch(httpUrl)
TokenURIReturn ==
    /\ verif.pc = "tokenURI"
    /\ verif' = [verif EXCEPT !.pc = "fetchMetadata"]
    /\ VerifyFrame

TokenURIThrows ==
    /\ verif.pc = "tokenURI"
    /\ verif' = VerifyCatch(verif, "tokenURI")
    /\ VerifyFrame

\* fetch(httpUrl) returns: metadataResponse.json()
FetchMetadataReturn ==
    /\ verif.pc = "fetchMetadata"
    /\ verif' = [verif EXCEPT !.pc = "metadataJson"]
    /\ VerifyFrame

FetchMetadataThrows ==
    /\ verif.pc = "fetchMetadata"
    /\ verif' = VerifyCatch(verif, "metadataFetch")
    /\ VerifyFrame

\* metadataResponse.json() returns the document, with or without image
MetadataJsonReturn ==
    /\ verif.pc = "metadataJson"
    /\ \E image \in BOOLEAN :
         verif' = AfterMetadata(
                     [verif EXCEPT !.metadata = IF image THEN "image" ELSE "noImage"],
                     image)
    /\ VerifyFrame

\* the document does not parse
MetadataJsonThrows ==
    /\ verif.pc = "metadataJson"
    /\ verif' = VerifyCatch(verif, "metadataParse")
    /\ VerifyFrame

\* part_000: fetch(imageUrl) returns; content type and length are read
FetchImageReturn ==
    /\ verif.pc = "fetchImage"
    /\ verif' = CallOracle([verif EXCEPT !.descriptor = "ok"])
    /\ VerifyFrame

\* part_000: fetch(imageUrl) throws inside its own try: "Could not fetch
\* image metadata" is logged and the function goes on
FetchImageThrows ==
    /\ verif.pc = "fetchImage"
    /\ verif' = CallOracle([verif EXCEPT !.descriptor = "failed"])
    /\ VerifyFrame

\* the scoring request is answered: response.json()
FetchOracleReturn ==
    /\ verif.pc = "fetchOracle"
    /\ verif' = [verif EXCEPT !.pc = "oracleJson"]
    /\ VerifyFrame

FetchOracleThrows ==
    /\ verif.pc = "fetchOracle"
    /\ verif' = VerifyCatch(verif, "oracleFetch")
    /\ VerifyFrame

\* response.json() returns data; data.choices[0].message.content throws a
\* TypeError when the reply has no choices[0].message, otherwise
\* score = parseInt(content) and decision = score >= threshold is returned
OracleJsonReturn ==
    /\ verif.pc = "oracleJson"
    /\ \E hasMessage \in BOOLEAN :
         IF hasMessage
         THEN LET score == parseInt(verif.content)
              IN verif' = AfterVerify([verif EXCEPT !.score = score],
                                      DecisionAt(score, ThresholdOf(verif.rev)))
         ELSE verif' = VerifyCatch(verif, "noMessage")
    /\ VerifyFrame

OracleJsonThrows ==
    /\ verif.pc = "oracleJson"
    /\ verif' = VerifyCatch(verif, "oracleParse")
    /\ VerifyFrame

\* contract.acceptClaim(bountyId, id) returns the transaction: tx.wait()
PassAcceptClaimReturn ==
    /\ verif.pc = "acceptClaim"
    /\ verif' = [verif EXCEPT !.pc = "wait"]
    /\ VerifyFrame

\* tx.wait() returns: the acceptance is on the ledger
PassWaitReturn ==
    /\ verif.pc = "wait"
    /\ verif' = [verif EXCEPT !.pc = "done", !.accepted = TRUE]
    /\ VerifyFrame

\* acceptClaim or tx.wait() throws: "Error accepting claim"
PassSettleThrows ==
    /\ verif.pc \in {"acceptClaim", "wait"}
    /\ verif' = [verif EXCEPT !.pc = "done"]
    /\ VerifyFrame

\* --------------------------------------------------------- bounty issuance
CreateRuns == 1..MaxCreates

\* contract_bounty_id of a row inserted without it (SQL NULL)
Null == <<>>

DigitChar(d) ==
    CASE d = 0 -> "0" [] d = 1 -> "1" [] d = 2 -> "2" [] d = 3 -> "3"
      [] d = 4 -> "4" [] d = 5 -> "5" [] d = 6 -> "6" [] d = 7 -> "7"
      [] d = 8 -> "8" [] d = 9 -> "9"

RECURSIVE toString(_)
\* i.toString(), args.id.toString(): the decimal digits of n
toString(n) ==
    IF n < 10 THEN <<DigitChar(n)>>
    ELSE Append(toString(n \div 10), DigitChar(n % 10))

\* if (value): null and the empty string are falsy, "0" is not
Truthy(str) == str # <<>>

\* bounties the generative service may return: same title, two descriptions
AIContents ==
    {[title |-> "Top Hat Selfie", description |-> "Wear a top hat."],
     [title |-> "Top Hat Selfie", description |-> "Wear two top hats."]}

\* const fallbackBounties = [...]
fallbackBounties ==
    <<[title |-> "Top Hat Tea Time",
       description |-> "Share a photo of yourself enjoying tea while wearing a distinguished top hat in an unexpected location."],
      [title |-> "Formal Pet Portrait",
       description |-> "Dress your pet in a top hat and take a Victorian-style portrait photo."],
      [title |-> "Top Hat Trick Shot",
       description |-> "Capture a photo of yourself successfully landing a small object into a top hat from at least 10 feet away."],
      [title |-> "Historical Hat Recreation",
       description |-> "Recreate a famous historical photo or painting while wearing a top hat."],
      [title |-> "Top Hat Garden Party",
       description |-> "Host an impromptu garden party with at least 3 people wearing top hats, even if it's in your living room."],
      [title |-> "Breakfast with Class",
       description |-> "Take a photo of your morning breakfast setup with a miniature top hat perched on something in the scene."],
      [title |-> "Top Hat Transportation",
       description |-> "Capture yourself wearing a top hat while using an unusual form of transportation (skateboard, unicycle, etc)."],
      [title |-> "Hat Stack Challenge",
       description |-> "Successfully balance and photograph at least 3 top hats stacked on your head."],
      [title |-> "Top Hat Wildlife",
       description |-> "Edit a top hat onto a photo you take of local wildlife (bird, squirrel, etc)."],
      [title |-> "Formal Fitness",
       description |-> "Share a photo of yourself exercising while wearing a top hat."]>>

\* error.code / error.message of a failed transaction or ledger call
TxErrors == ErrorCodes \cup {"CALL_EXCEPTION", "INSUFFICIENT_FUNDS"}
NotFoundMessage == "Bounty ID not found in transaction events"
StoreError == "SQLITE_ERROR"

NoContent == [title |-> "", description |-> ""]

\* one invocation of createBounty; idle = not called
NewCreate ==
    [pc |-> "idle", content |-> NoContent, fallback |-> FALSE,
     confirmed |-> FALSE, onChain |-> Undefined, via |-> "",
     bountyId |-> Null, error |-> "",
     submitted |-> 0,     \* history: calls of contract.createSoloBounty
     inserted |-> 0]      \* history: rows the run has added to the store

\* a row of the table bounties; its id is its position in db
Row(content, contractBountyId) ==
    [title |-> content.title, description |-> content.description,
     contract_bounty_id |-> contractBountyId, created_at |-> now]

\* array indices start at 0: usedFallbackIndices holds 0 .. length - 1
FallbackIndices == 0..(Len(fallbackBounties) - 1)

\* variant: no filter on usedFallbackIndices
availableIndicesUnfiltered == FallbackIndices

\* the indices generateBountyIdea may draw: the unused ones, all of them
\* after the reset
availableIndices ==
    IF FallbackIndices \ usedFallbackIndices = {}
    THEN FallbackIndices
    ELSE FallbackIndices \ usedFallbackIndices

\* nothing returned yet
NoFallback == [calls |-> 0, titles |-> {}, last |-> NoContent]

\* variant: usedFallbackIndices.clear() on every call
DrawFallbackClearsAlways(randomIndex) ==
    /\ usedFallbackIndices' = {randomIndex}
    /\ fallbackLog' =
          [calls |-> fallbackLog.calls + 1,
           titles |-> fallbackLog.titles \cup {fallbackBounties[randomIndex + 1].title},
           last |-> fallbackBounties[randomIndex + 1]]

\* usedFallbackIndices.clear() when all are used; usedFallbackIndices.add(
\* randomIndex); return fallbackBounties[randomIndex]
DrawFallback(randomIndex) ==
    /\ usedFallbackIndices' =
          (IF FallbackIndices \ usedFallbackIndices = {}
           THEN {} ELSE usedFallbackIndices) \cup {randomIndex}
    /\ fallbackLog' =
          [calls |-> fallbackLog.calls + 1,
           titles |-> fallbackLog.titles \cup {fallbackBounties[randomIndex + 1].title},
           last |-> fallbackBounties[randomIndex + 1]]

\* variant: the catch of generateBountyIdea throws the error on
FallbackRethrows(r) ==
    /\ create' = [create EXCEPT ![r].pc = "threw", ![r].error = StoreError]
    /\ UNCHANGED fallbackVars

\* catch (error) of generateBountyIdea: a fallback bounty is drawn and
\* returned, nothing is stored; createBounty then calls createSoloBounty
Fallback(r) ==
    \E randomIndex \in availableIndices :
       /\ DrawFallback(randomIndex)
       /\ create' = [create EXCEPT ![r].pc = "createSoloBounty",
                                   ![r].submitted = @ + 1,
                                   ![r].fallback = TRUE,
                                   ![r].content = fallbackBounties[randomIndex + 1]]

\* one more call of generateBountyIdea ends in its catch block
FallbackCall ==
    /\ fallbackLog.calls < MaxFallbackCalls
    /\ \E randomIndex \in availableIndices : DrawFallback(randomIndex)
    /\ UNCHANGED <<pollVars, errors, verif, db, bounties, create, backfill, now>>

\* variant: the catch of createBounty calls createSoloBounty once more
CreateThrowsResubmits(r, error) ==
    create' = [create EXCEPT ![r].pc = "createSoloBounty",
                             ![r].submitted = @ + 1,
                             ![r].error = error]

\* throw error, out of createBounty
CreateThrows(r, error) ==
    create' = [create EXCEPT ![r].pc = "threw", ![r].error = error]

IssuanceFrame == UNCHANGED <<pollVars, verif, backfill>>

\* variant: createBounty assigns the module's provider and contract in
\* place of declaring its own
CreateBountyStartRebinds(r) ==
    /\ create[r].pc = "idle"
    /\ \A q \in CreateRuns : q < r => create[q].pc # "idle"
    /\ create' = [create EXCEPT ![r].pc = "dbAll"]
    /\ provider' = provider + 1
    /\ contract' = provider'
    /\ UNCHANGED <<db, bounties, fallbackVars, now, errors>>
    /\ UNCHANGED <<chain, claimAccepted, alive, main, lastProcessedBlock, tick,
                   historyVars, verif, backfill>>

\* the cron job or GET /create-bounty calls createBounty, which binds a
\* provider, a wallet and a contract of its own (const) and calls
\* generateBountyIdea: db.all("SELECT title ...")
CreateBountyStart(r) ==
    /\ create[r].pc = "idle"
    /\ \A q \in CreateRuns : q < r => create[q].pc # "idle"
    /\ create' = [create EXCEPT ![r].pc = "dbAll"]
    /\ UNCHANGED <<db, bounties, fallbackVars, now, errors>>
    /\ IssuanceFrame

\* db.all returns the recent titles: the generative service is called
DbAllReturn(r) ==
    /\ create[r].pc = "dbAll"
    /\ create' = [create EXCEPT ![r].pc = "fetch"]
    /\ UNCHANGED <<db, bounties, fallbackVars, now, errors>>
    /\ IssuanceFrame

DbAllThrows(r) ==
    /\ create[r].pc = "dbAll"
    /\ errors < MaxErrors /\ errors' = errors + 1
    /\ Fallback(r)
    /\ UNCHANGED <<db, bounties, now>>
    /\ IssuanceFrame

\* the service answers and JSON.parse gives a bounty: db.run("INSERT INTO
\* bounties (title, description) ...")
FetchIdeaReturn(r) ==
    /\ create[r].pc = "fetch"
    /\ \E bounty \in AIContents :
         create' = [create EXCEPT ![r].pc = "dbRunDraft", ![r].content = bounty]
    /\ UNCHANGED <<db, bounties, fallbackVars, now, errors>>
    /\ IssuanceFrame

\* fetch or response.json() throws, the reply has no choices[0].message, or
\* its content is not JSON
FetchIdeaThrows(r) ==
    /\ create[r].pc = "fetch"
    /\ errors < MaxErrors /\ errors' = errors + 1
    /\ Fallback(r)
    /\ UNCHANGED <<db, bounties, now>>
    /\ IssuanceFrame

\* the INSERT of generateBountyIdea is done: the row has no
\* contract_bounty_id; the bounty is returned and createSoloBounty is called
DraftInsertReturn(r) ==
    /\ create[r].pc = "dbRunDraft"
    /\ db' = Append(db, Row(create[r].content, Null))
    /\ create' = [create EXCEPT ![r].pc = "createSoloBounty",
                                ![r].submitted = @ + 1,
                                ![r].inserted = @ + 1]
    /\ UNCHANGED <<bounties, fallbackVars, now, errors>>
    /\ IssuanceFrame

DraftInsertThrows(r) ==
    /\ create[r].pc = "dbRunDraft"
    /\ errors < MaxErrors /\ errors' = errors + 1
    /\ Fallback(r)
    /\ UNCHANGED <<db, bounties, now>>
    /\ IssuanceFrame

\* contract.createSoloBounty returns the transaction: tx.wait()
CreateSoloBountyReturn(r) ==
    /\ create[r].pc = "createSoloBounty"
    /\ create' = [create EXCEPT ![r].pc = "wait"]
    /\ UNCHANGED <<db, bounties, fallbackVars, now, errors>>
    /\ IssuanceFrame

\* the submission fails
CreateSoloBountyThrows(r) ==
    /\ create[r].pc = "createSoloBounty"
    /\ errors < MaxErrors /\ errors' = errors + 1
    /\ \E error \in TxErrors : CreateThrows(r, error)
    /\ UNCHANGED <<db, bounties, fallbackVars, now>>
    /\ IssuanceFrame

\* tx.wait() returns the receipt: the bounty is on the ledger under the next
\* identifier. If a BountyCreated event is parsed from receipt.logs the row
\* is inserted with the identifier, otherwise the block's events are queried.
TxWaitReturn(r) ==
    /\ create[r].pc = "wait"
    /\ Len(bounties) < MaxBounties
    /\ bounties' = Append(bounties, [name |-> create[r].content.title,
                                     description |-> create[r].content.description,
                                     tx |-> r])
    /\ \E bountyCreatedEvent \in BOOLEAN :
         IF bountyCreatedEvent
         THEN create' = [create EXCEPT ![r].pc = "dbRunFinal",
                                       ![r].confirmed = TRUE,
                                       ![r].onChain = Len(bounties),
                                       ![r].via = "receipt",
                                       ![r].bountyId = toString(Len(bounties))]
         ELSE create' = [create EXCEPT ![r].pc = "queryFilter",
                                       ![r].confirmed = TRUE,
                                       ![r].onChain = Len(bounties)]
    /\ UNCHANGED <<db, fallbackVars, now, errors>>
    /\ IssuanceFrame

\* the transaction reverts
TxWaitThrows(r) ==
    /\ create[r].pc = "wait"
    /\ errors < MaxErrors /\ errors' = errors + 1
    /\ \E error \in TxErrors : CreateThrows(r, error)
    /\ UNCHANGED <<db, bounties, fallbackVars, now>>
    /\ IssuanceFrame

\* the INSERT with contract_bounty_id is done: return bountyId
FinalInsertReturn(r) ==
    /\ create[r].pc = "dbRunFinal"
    /\ db' = Append(db, Row(create[r].content, create[r].bountyId))
    /\ create' = [create EXCEPT ![r].pc = "returned", ![r].inserted = @ + 1]
    /\ UNCHANGED <<bounties, fallbackVars, now, errors>>
    /\ IssuanceFrame

FinalInsertThrows(r) ==
    /\ create[r].pc = "dbRunFinal"
    /\ errors < MaxErrors /\ errors' = errors + 1
    /\ CreateThrows(r, StoreError)
    /\ UNCHANGED <<db, bounties, fallbackVars, now>>
    /\ IssuanceFrame

\* the BountyCreated events the node returns for the block of the receipt:
\* all of them, or none when the node has not indexed the block
SameBlockEvents(indexed) ==
    IF indexed
    THEN {[id |-> i - 1, transactionHash |-> bounties[i].tx] : i \in DOMAIN bounties}
    ELSE {}

\* variant: the first BountyCreated event of the block is taken
SameTransactionUnchecked(event, r) == TRUE

\* event.transactionHash === receipt.transactionHash
SameTransaction(event, r) == event.transactionHash = r

\* contract.queryFilter(filter, blockNumber, blockNumber) returns: the event
\* with the transaction's hash gives the identifier, which is returned; no
\* event with that hash: throw new Error("Bounty ID not found ...")
SameBlockQueryReturn(r) ==
    /\ create[r].pc = "queryFilter"
    /\ \E indexed \in BOOLEAN :
         LET found == {e \in SameBlockEvents(indexed) : SameTransaction(e, r)}
         IN IF found # {}
            THEN create' = [create EXCEPT
                              ![r].pc = "returned", ![r].via = "polling",
                              ![r].bountyId = toString((CHOOSE e \in found : TRUE).id)]
            ELSE CreateThrows(r, NotFoundMessage)
    /\ UNCHANGED <<db, bounties, fallbackVars, now, errors>>
    /\ IssuanceFrame

\* the query itself fails: its error leaves createBounty
SameBlockQueryThrows(r) ==
    /\ create[r].pc = "queryFilter"
    /\ errors < MaxErrors /\ errors' = errors + 1
    /\ \E error \in ErrorCodes : CreateThrows(r, error)
    /\ UNCHANGED <<db, bounties, fallbackVars, now>>
    /\ IssuanceFrame

\* a second passes
ClockTick ==
    /\ now < MaxClock
    /\ now' = now + 1
    /\ UNCHANGED <<db, bounties, create, fallbackVars, errors>>
    /\ IssuanceFrame

\* ------------------------------------------------- the identifier backfill
Requests == 1..MaxRequests

\* one GET /current-bounty request; idle = not received
NewRequest ==
    [pc |-> "idle", row |-> 0, read |-> "none", matchAtRead |-> FALSE,
     total |-> 0, i |-> 0, contractId |-> Null, failed |-> FALSE,
     wrote |-> FALSE, lookups |-> 0, failedIdx |-> {}]

\* ORDER BY created_at DESC LIMIT 1: a row with the greatest created_at;
\* which one among rows of the same second is not determined
LatestRows == {k \in DOMAIN db : \A j \in DOMAIN db : db[j].created_at <= db[k].created_at}

\* variant: bounty.name === title
MatchesTitle(bounty, title, description) == bounty.name = title

\* bounty.name === title && bounty.description === description
Matches(bounty, title, description) ==
    bounty.name = title /\ bounty.description = description

\* findContractBountyId returns contractId: if (contractId) the UPDATE is
\* sent, else the response is built from the row as read
AfterFind(q, contractId) ==
    IF Truthy(contractId)
    THEN [q EXCEPT !.pc = "dbRun", !.contractId = contractId]
    ELSE [q EXCEPT !.pc = "done"]

\* variant: for (let i = totalBounties - 1; i > 0; i--)
ScanFromAboveZero(q, i) ==
    IF i > 0
    THEN [q EXCEPT !.pc = "bounties", !.i = i, !.lookups = @ + 1]
    ELSE AfterFind(q, Null)

\* the for loop of findContractBountyId arrives at index i: the next
\* contract.bounties(i) is called, or the loop is over and null is returned
ScanFrom(q, i) ==
    IF i >= 0
    THEN [q EXCEPT !.pc = "bounties", !.i = i, !.lookups = @ + 1]
    ELSE AfterFind(q, Null)

\* variant: a failed lookup ends the scan, null is returned
LookupCatchAborts(q) == AfterFind([q EXCEPT !.failed = TRUE], Null)

\* catch (error) inside the loop: "Error checking bounty", continue with i--
LookupCatch(q) ==
    ScanFrom([q EXCEPT !.failed = TRUE, !.failedIdx = @ \cup {q.i}], q.i - 1)

BackfillFrame == UNCHANGED <<pollVars, verif, create, fallbackVars, now>>

\* GET /current-bounty arrives: db.get("SELECT ... LIMIT 1")
CurrentBountyStart(b) ==
    /\ backfill[b].pc = "idle"
    /\ \A q \in Requests : q < b => backfill[q].pc # "idle"
    /\ backfill' = [backfill EXCEPT ![b].pc = "dbGet"]
    /\ UNCHANGED <<db, bounties, errors>>
    /\ BackfillFrame

\* db.get returns latestBounty: 404 without a row; with a row whose
\* contract_bounty_id is null findContractBountyId starts and calls
\* contract.bountyCounter()
DbGetReturn(b) ==
    /\ backfill[b].pc = "dbGet"
    /\ IF db = <<>>
       THEN backfill' = [backfill EXCEPT ![b].pc = "done", ![b].read = "empty"]
       ELSE \E k \in LatestRows :
              IF Truthy(db[k].contract_bounty_id)
              THEN backfill' = [backfill EXCEPT ![b].pc = "done", ![b].row = k,
                                                ![b].read = "id"]
              ELSE backfill' = [backfill EXCEPT
                     ![b].pc = "bountyCounter", ![b].row = k, ![b].read = "null",
                     ![b].matchAtRead =
                        \E n \in DOMAIN bounties :
                           /\ bounties[n].name = db[k].title
                           /\ bounties[n].description = db[k].description]
    /\ UNCHANGED <<db, bounties, errors>>
    /\ BackfillFrame

\* db.get throws: 500
DbGetThrows(b) ==
    /\ backfill[b].pc = "dbGet"
    /\ errors < MaxErrors /\ errors' = errors + 1
    /\ backfill' = [backfill EXCEPT ![b].pc = "done", ![b].failed = TRUE]
    /\ UNCHANGED <<db, bounties>>
    /\ BackfillFrame

\* contract.bountyCounter() returns: the loop starts at totalBounties - 1
BountyCounterReturn(b) ==
    /\ backfill[b].pc = "bountyCounter"
    /\ backfill' = [backfill EXCEPT ![b] =
                      ScanFrom([@ EXCEPT !.total = Len(bounties)], Len(bounties) - 1)]
    /\ UNCHANGED <<db, bounties, errors>>
    /\ BackfillFrame

\* contract.bountyCounter() throws: the outer catch returns null
BountyCounterThrows(b) ==
    /\ backfill[b].pc = "bountyCounter"
    /\ errors < MaxErrors /\ errors' = errors + 1
    /\ backfill' = [backfill EXCEPT ![b] = AfterFind([@ EXCEPT !.failed = TRUE], Null)]
    /\ UNCHANGED <<db, bounties>>
    /\ BackfillFrame

\* contract.bounties(i) returns: a match returns i.toString(), otherwise i--
LookupReturn(b) ==
    /\ backfill[b].pc = "bounties"
    /\ LET q == backfill[b]
           bounty == bounties[q.i + 1]
       IN backfill' = [backfill EXCEPT ![b] =
             IF Matches(bounty, db[q.row].title, db[q.row].description)
             THEN AfterFind(q, toString(q.i))
             ELSE ScanFrom(q, q.i - 1)]
    /\ UNCHANGED <<db, bounties, errors>>
    /\ BackfillFrame

\* contract.bounties(i) throws: "Error checking bounty", continue
LookupThrows(b) ==
    /\ backfill[b].pc = "bounties"
    /\ errors < MaxErrors /\ errors' = errors + 1
    /\ backfill' = [backfill EXCEPT ![b] = LookupCatch(@)]
    /\ UNCHANGED <<db, bounties>>
    /\ BackfillFrame

\* variant: the row is written anew (INSERT OR REPLACE), created_at included
UpdateReturnReplacesRow(b) ==
    /\ backfill[b].pc = "dbRun"
    /\ db' = [db EXCEPT ![backfill[b].row] =
                 [@ EXCEPT !.contract_bounty_id = backfill[b].contractId,
                           !.created_at = now]]
    /\ backfill' = [backfill EXCEPT ![b].pc = "done", ![b].wrote = TRUE]
    /\ UNCHANGED <<bounties, errors>>
    /\ BackfillFrame

\* UPDATE bounties SET contract_bounty_id = ? WHERE id = ? is done
UpdateReturn(b) ==
    /\ backfill[b].pc = "dbRun"
    /\ db' = [db EXCEPT ![backfill[b].row].contract_bounty_id = backfill[b].contractId]
    /\ backfill' = [backfill EXCEPT ![b].pc = "done", ![b].wrote = TRUE]
    /\ UNCHANGED <<bounties, errors>>
    /\ BackfillFrame

\* the UPDATE fails: 500
UpdateThrows(b) ==
    /\ backfill[b].pc = "dbRun"
    /\ errors < MaxErrors /\ errors' = errors + 1
    /\ backfill' = [backfill EXCEPT ![b].pc = "done", ![b].failed = TRUE]
    /\ UNCHANGED <<db, bounties>>
    /\ BackfillFrame

\* a createSoloBounty transaction, of this agent or of anyone, is confirmed
\* while requests are served
LedgerBountyCreated ==
    /\ Len(bounties) < MaxBounties
    /\ \E content \in AIContents :
         bounties' = Append(bounties, [name |-> content.title,
                                       description |-> content.description,
                                       tx |-> 0])
    /\ UNCHANGED <<db, backfill, errors>>
    /\ BackfillFrame

\* ----------------------------------------------------------- specification
\* the state of the loop and its session when the process starts
PollInit ==
    /\ chain = <<>>
    /\ claimAccepted = {}
    /\ alive = TRUE
    /\ main = "start"
    /\ provider = 0
    /\ contract = 0
    /\ lastProcessedBlock = Undefined
    /\ tick = [t \in Ticks |-> NewTick]
    /\ errors = 0
    /\ startHeight = Undefined
    /\ handed = {}
    /\ reconnectDue = FALSE
    /\ lastDone = Done(NewTick, "none")
    /\ failedSettled = {}
    /\ covered = {}

\* no bounty issued, nothing stored, no request in flight
IssuanceIdle ==
    /\ db = <<>>
    /\ bounties = <<>>
    /\ create = [r \in CreateRuns |-> NewCreate]
    /\ usedFallbackIndices = {}
    /\ fallbackLog = NoFallback
    /\ backfill = [b \in Requests |-> NewRequest]
    /\ now = 0

Init ==
    /\ PollInit
    /\ verif = IdleVerif
    /\ IssuanceIdle

TickStep(t) ==
    \/ GetBlockNumberReturn(t)
    \/ GetBlockNumberThrows(t)
    \/ QueryFilterReturn(t)
    \/ QueryFilterThrows(t)
    \/ BountiesReturn(t)
    \/ BountiesThrows(t)
    \/ VerifyReturn(t)
    \/ AcceptClaimReturn(t)
    \/ AcceptClaimThrows(t)
    \/ WaitReturn(t)
    \/ WaitThrows(t)
    \/ ReconnectReturn(t)
    \/ ReconnectThrows(t)

Startup ==
    \/ StartInitialize
    \/ StartInitializeReturn
    \/ StartThrows
    \/ setupClaimListener

Next ==
    \/ MineBlock
    \/ Startup
    \/ \E t \in Ticks : TickFire(t)
    \/ \E t \in Ticks : TickStep(t)

Spec == Init /\ [][Next]_vars

\* The interval keeps firing and every pending call eventually answers or
\* fails, as long as the process lives.
FairSpec ==
    /\ Spec
    /\ WF_vars(Startup)
    /\ WF_vars(\E t \in Ticks : TickFire(t))
    /\ \A t \in Ticks : WF_vars(TickStep(t))

\* the steps of a tick behind a call that answers or fails in bounded time:
\* the provider's requests and fetch carry the libraries' default timeouts.
\* tx.wait() is called without a timeout and waits for the receipt as long
\* as the transaction is not mined.
TimedStep(t) ==
    \/ GetBlockNumberReturn(t)
    \/ GetBlockNumberThrows(t)
    \/ QueryFilterReturn(t)
    \/ QueryFilterThrows(t)
    \/ BountiesReturn(t)
    \/ BountiesThrows(t)
    \/ VerifyReturn(t)
    \/ AcceptClaimReturn(t)
    \/ AcceptClaimThrows(t)
    \/ ReconnectReturn(t)
    \/ ReconnectThrows(t)

\* The interval keeps firing and every call with a timeout answers or
\* fails; the receipt of a submitted acceptClaim may never arrive.
HungSpec ==
    /\ Spec
    /\ WF_vars(Startup)
    /\ WF_vars(\E t \in Ticks : TickFire(t))
    /\ \A t \in Ticks : WF_vars(TimedStep(t))

\* One pass of the admission pipeline: the revision and the content of the
\* scoring reply are drawn, every external call returns or throws.
VerifyInit ==
    /\ PollInit
    /\ IssuanceIdle
    /\ verif \in {[IdleVerif EXCEPT !.pc = "tokenURI", !.rev = rev,
                                    !.content = content] :
                     rev \in Revisions, content \in OracleReplies}

VerifyNext ==
    \/ TokenURIReturn
    \/ TokenURIThrows
    \/ FetchMetadataReturn
    \/ FetchMetadataThrows
    \/ MetadataJsonReturn
    \/ MetadataJsonThrows
    \/ FetchImageReturn
    \/ FetchImageThrows
    \/ FetchOracleReturn
    \/ FetchOracleThrows
    \/ OracleJsonReturn
    \/ OracleJsonThrows
    \/ PassAcceptClaimReturn
    \/ PassWaitReturn
    \/ PassSettleThrows

VerifySpec == VerifyInit /\ [][VerifyNext]_vars

CreateStep(r) ==
    \/ CreateBountyStart(r)
    \/ DbAllReturn(r)
    \/ DbAllThrows(r)
    \/ FetchIdeaReturn(r)
    \/ FetchIdeaThrows(r)
    \/ DraftInsertReturn(r)
    \/ DraftInsertThrows(r)
    \/ CreateSoloBountyReturn(r)
    \/ CreateSoloBountyThrows(r)
    \/ TxWaitReturn(r)
    \/ TxWaitThrows(r)
    \/ FinalInsertReturn(r)
    \/ FinalInsertThrows(r)
    \/ SameBlockQueryReturn(r)
    \/ SameBlockQueryThrows(r)

\* Bounty issuance on its own: createBounty invocations, possibly
\* overlapping (the cron job and GET /create-bounty), from an empty store.
IssuanceNext ==
    \/ \E r \in CreateRuns : CreateStep(r)
    \/ ClockTick

IssuanceSpec == Init /\ [][IssuanceNext]_vars

\* the ledgers the requests may find: up to MaxBounties bounties
Ledgers ==
    UNION {[1..n -> {[name |-> c.title, description |-> c.description, tx |-> 0] :
                        c \in AIContents}] : n \in 0..MaxBounties}

\* the rows createBounty may have left for a ledger: without identifier
\* (generateBountyIdea) or with the identifier of a bounty of that title and
\* description (the receipt path)
RowsFor(ledger) ==
    {[title |-> c.title, description |-> c.description,
      contract_bounty_id |-> id, created_at |-> at] :
        c \in AIContents, at \in 0..MaxClock,
        id \in {Null} \cup {toString(n - 1) : n \in DOMAIN ledger}}

\* rows by id: created_at does not decrease, no identifier is stored twice and
\* a stored identifier names a bounty of the row's title and description
StoresFor(ledger) ==
    {st \in UNION {[1..n -> RowsFor(ledger)] : n \in 0..MaxRows} :
        /\ \A j, k \in DOMAIN st :
              /\ j < k => st[j].created_at <= st[k].created_at
              /\ (j # k /\ Truthy(st[j].contract_bounty_id))
                    => st[j].contract_bounty_id # st[k].contract_bounty_id
        /\ \A k \in DOMAIN st :
              Truthy(st[k].contract_bounty_id)
                 => \E n \in DOMAIN ledger :
                       /\ st[k].contract_bounty_id = toString(n - 1)
                       /\ ledger[n].name = st[k].title
                       /\ ledger[n].description = st[k].description}

\* GET /current-bounty requests, possibly overlapping, over a store and a
\* ledger as bounty issuance may have left them
BackfillInit ==
    /\ PollInit
    /\ verif = IdleVerif
    /\ create = [r \in CreateRuns |-> NewCreate]
    /\ usedFallbackIndices = {}
    /\ fallbackLog = NoFallback
    /\ now = MaxClock
    /\ backfill = [b \in Requests |-> NewRequest]
    /\ bounties \in Ledgers
    /\ db \in StoresFor(bounties)

RequestStep(b) ==
    \/ CurrentBountyStart(b)
    \/ DbGetReturn(b)
    \/ DbGetThrows(b)
    \/ BountyCounterReturn(b)
    \/ BountyCounterThrows(b)
    \/ LookupReturn(b)
    \/ LookupThrows(b)
    \/ UpdateReturn(b)
    \/ UpdateThrows(b)

BackfillNext ==
    \/ \E b \in Requests : RequestStep(b)
    \/ LedgerBountyCreated

BackfillSpec == BackfillInit /\ [][BackfillNext]_vars

\* The fallback generator on its own: call after call of generateBountyIdea
\* ends in the catch block, from an empty usedFallbackIndices.
FallbackNext == FallbackCall

FallbackSpec == Init /\ [][FallbackNext]_vars

\* Everything that writes the store, together: a createBounty run and the
\* GET /current-bounty requests served meanwhile, from an empty store.
StoreNext ==
    \/ CreateStep(1)
    \/ \E b \in Requests : RequestStep(b)
    \/ ClockTick

StoreSpec == Init /\ [][StoreNext]_vars

\* The loop next to the rest of the program: the interval callback, one at
\* a time, while a createBounty run is in progress.
SharedNext ==
    \/ MineBlock
    \/ Startup
    \/ TickFire(1)
    \/ TickStep(1)
    \/ CreateStep(1)

SharedSpec == Init /\ [][SharedNext]_vars

\* ------------------------------------------------------------------ claims
\* the events of blocks from..to as the ledger emitted them
Emitted(from, to) == Flatten(chain, from, to)

\* the agent issued the bounty of the event: case-insensitive equality
OwnedEvent(e) == toLowerCase(e.bountyIssuer) = toLowerCase(WalletAddress)

InFlight == {t \in Ticks : tick[t].pc # "idle"}
InPipeline ==
    {t \in Ticks : tick[t].pc \in {"bounties", "verifyClaimWithAI", "acceptClaim", "wait"}}

\* tick t returns in this step after writing the cursor
Commits(t) ==
    /\ tick[t].pc # "idle" /\ tick'[t].pc = "idle"
    /\ lastDone'.result = "committed"

\* C1: the cursor never decreases: no step assigns lastProcessedBlock a value
\* lower than the one it held.
C1_CursorMonotone == [][lastProcessedBlock' >= lastProcessedBlock]_vars

\* C2: ticks are serialized: at no time are two invocations of the poll
\* callback in progress together.
C2_TicksSerialized == Cardinality(InFlight) <= 1

\* C3: the cursor is written only by a tick that returns, after every event of
\* its range has an outcome, and the value written is the tick's latestBlock.
C3_CommitAfterAllHandled ==
    [][/\ (main = "running" /\ lastProcessedBlock' # lastProcessedBlock) =>
             \E t \in Ticks : Commits(t)
       /\ \A t \in Ticks : Commits(t) =>
             /\ Len(lastDone'.outcomes) =
                   Len(Emitted(tick[t].fromBlock, tick[t].latestBlock))
             /\ lastProcessedBlock' = tick[t].latestBlock
       /\ \A t \in Ticks :
             (tick'[t] # tick[t] /\ tick'[t].pc # "idle") =>
                 lastProcessedBlock' = lastProcessedBlock]_vars

C3_Witness ==
    /\ lastDone.result = "committed"
    /\ Len(lastDone.outcomes) >= 2
    /\ \E i \in 1..Len(lastDone.outcomes) : lastDone.outcomes[i] # "skipped"

\* C4: a poll whose getBlockNumber or queryFilter fails leaves the cursor alone
\* and hands nothing to the pipeline, and no tick reads the ledger again until
\* initializeContract has completed.
C4_ReconnectBeforeNextRead ==
    [][/\ \A t \in Ticks :
             (/\ tick[t].pc \in {"getBlockNumber", "queryFilter"}
              /\ tick'[t] # tick[t]
              /\ errors' > errors) =>
                 UNCHANGED <<lastProcessedBlock, handed>>
       /\ \A t \in Ticks :
             (tick[t].pc = "idle" /\ tick'[t].pc = "getBlockNumber") =>
                 ~reconnectDue]_vars

\* the outcomes the tick has recorded after this step
OutcomesAfter(t) ==
    IF tick'[t].pc = "idle" THEN lastDone'.outcomes ELSE tick'[t].outcomes

\* the handling of the current event of tick t fails in this step
FailsEvent(t) ==
    /\ t \in InPipeline
    /\ tick'[t] # tick[t]
    /\ \/ errors' > errors
       \/ /\ Len(OutcomesAfter(t)) >= tick[t].idx
          /\ OutcomesAfter(t)[tick[t].idx] = "failed"

\* C5: when the handling of one event fails, the tick goes on with the next
\* owned event of the batch, or, if none is left, returns with cursor = latest
\* and every event of the batch handled.
C5_FailureIsolated ==
    [][\A t \in Ticks : FailsEvent(t) =>
         LET evs == Emitted(tick[t].fromBlock, tick[t].latestBlock)
             rest == {j \in (tick[t].idx + 1)..Len(evs) : OwnedEvent(evs[j])}
         IN IF rest # {}
            THEN /\ tick'[t].pc = "bounties"
                 /\ tick'[t].idx \in rest
                 /\ \A j \in rest : tick'[t].idx <= j
                 /\ tick'[t].outcomes[tick[t].idx] = "failed"
            ELSE /\ Commits(t)
                 /\ Len(lastDone'.outcomes) = Len(evs)
                 /\ lastDone'.outcomes[tick[t].idx] = "failed"
                 /\ lastProcessedBlock' = tick[t].latestBlock]_vars

C5_Witness ==
    /\ lastDone.result = "committed"
    /\ \E i, j \in 1..Len(lastDone.outcomes) :
         /\ i < j
         /\ lastDone.outcomes[i] = "failed"
         /\ lastDone.outcomes[j] \in {"rejected", "settled"}

\* C6: every owned ClaimCreated event emitted above the startup height is
\* eventually handed to the admission pipeline.
C6_AtLeastOnce ==
    \A h \in 1..MaxHeight, k \in 1..MaxEventsPerBlock :
        (/\ main = "running"
         /\ h <= Len(chain) /\ h > startHeight
         /\ k <= Len(chain[h])
         /\ OwnedEvent(chain[h][k]))
        ~> (h <= Len(chain) /\ k <= Len(chain[h]) /\ chain[h][k].id \in handed)

\* C7: a tick that reads latest <= cursor returns at once: no query, no
\* pipeline, no acceptClaim, cursor unchanged.
C7_NoopTick ==
    [][\A t \in Ticks :
         (/\ tick[t].pc = "getBlockNumber"
          /\ tick'[t] # tick[t]
          /\ errors' = errors
          /\ Len(chain) <= lastProcessedBlock) =>
             /\ tick'[t].pc = "idle"
             /\ lastDone'.result = "noop"
             /\ UNCHANGED <<lastProcessedBlock, handed, claimAccepted>>]_vars

C7_Witness ==
    /\ lastDone.result = "noop"
    /\ lastProcessedBlock > startHeight
    /\ handed # {}

\* C8: an event is in the pipeline (bounty read, scoring, settlement) exactly
\* if its bountyIssuer equals the agent's address ignoring case; the others are
\* skipped.
C8_OwnershipFilter ==
    /\ \A t \in InPipeline :
         /\ OwnedEvent(Emitted(tick[t].fromBlock, tick[t].latestBlock)[tick[t].idx])
         /\ Emitted(tick[t].fromBlock, tick[t].latestBlock)[tick[t].idx].id \in handed
    /\ \A t \in InFlight :
         \A i \in 1..Len(tick[t].outcomes) :
            LET e == Emitted(tick[t].fromBlock, tick[t].latestBlock)[i]
            IN /\ (tick[t].outcomes[i] = "skipped") <=> ~OwnedEvent(e)
               /\ OwnedEvent(e) <=> e.id \in handed
    /\ \A h \in 1..Len(chain) : \A k \in 1..Len(chain[h]) :
         chain[h][k].id \in handed => OwnedEvent(chain[h][k])

C8_Witness ==
    \E t \in InPipeline :
       LET evs == Emitted(tick[t].fromBlock, tick[t].latestBlock)
       IN /\ tick[t].idx = 2
          /\ tick[t].outcomes = <<"skipped">>
          /\ evs[1].bountyId = evs[2].bountyId
          /\ evs[2].bountyIssuer # WalletAddress

\* ids of the owned events of a sequence, in its order
RECURSIVE OwnedIds(_)
OwnedIds(evs) ==
    IF evs = <<>> THEN <<>>
    ELSE (IF OwnedEvent(Head(evs)) THEN <<Head(evs).id>> ELSE <<>>)
         \o OwnedIds(Tail(evs))

\* C9: within a tick the owned events of cursor+1..latest enter the pipeline
\* one after another in ledger order, each finished before the next starts,
\* and the tick returns with cursor = latest.
C9_LedgerOrder ==
    [][/\ \A t \in Ticks : tick'[t].pc \in {"bounties", "verifyClaimWithAI", "acceptClaim", "wait"} =>
             LET r == tick'[t]
                 evs == Emitted(r.fromBlock, r.latestBlock)
             IN /\ r.pipeline = OwnedIds(SubSeq(evs, 1, r.idx))
                /\ Len(r.outcomes) = r.idx - 1
                /\ r.fromBlock <= r.latestBlock
       /\ \A t \in Ticks : Commits(t) =>
             /\ tick[t].pipeline =
                   OwnedIds(Emitted(tick[t].fromBlock, tick[t].latestBlock))
             /\ lastProcessedBlock' = tick[t].latestBlock
       /\ \A t \in Ticks :
             (/\ t \in InPipeline \/ tick[t].pc = "queryFilter"
              /\ tick'[t].pc = "idle"
              /\ errors' = errors) => Commits(t)]_vars

C9_Witness ==
    /\ lastDone.result = "committed"
    /\ Len(lastDone.outcomes) = 2
    /\ \A i \in 1..2 : lastDone.outcomes[i] \in {"rejected", "settled"}
    /\ lastProcessedBlock = 2

\* C10: the cursor starts at the height read at startup, and no event at or
\* below that height is ever queried or handed to the pipeline.
C10_NothingBeforeStartup ==
    [][/\ (main = "setupClaimListener" /\ main' = "running") =>
             lastProcessedBlock' = Len(chain)
       /\ main' = "running" =>
             /\ lastProcessedBlock' >= startHeight'
             /\ \A t \in Ticks :
                   tick'[t].pc \notin {"idle", "getBlockNumber", "initializeContract"} =>
                       tick'[t].fromBlock > startHeight'
             /\ \A h \in 1..Len(chain) : \A k \in 1..Len(chain[h]) :
                   chain[h][k].id \in handed' => h > startHeight']_vars

C10_Witness ==
    /\ startHeight >= 1
    /\ Len(chain[1]) >= 1
    /\ OwnedEvent(chain[1][1])
    /\ chain[1][1].id \notin handed
    /\ handed # {}
    /\ lastDone.result = "committed"

\* --------------------------------------------------- the admission decision
\* the content starts, after white space and one optional sign, with a digit
StartsWithNumber(s) ==
    \E i \in 1..Len(s) :
        /\ s[i] \in Digits
        /\ \A j \in 1..(i - 1) : s[j] = " " \/ (j = i - 1 /\ s[j] \in {"+", "-"})

\* C11: when the scoring call fails, the reply has no usable message, or its
\* content does not start with a number ("N/A", empty), verifyClaimWithAI
\* returns false; it returns true only for a reply with a numeric score.
C11_FailClosedOracle ==
    Returned(verif) =>
       /\ verif.failure \in {"oracleFetch", "oracleParse", "noMessage"}
             => ~verif.isValid
       /\ (verif.consulted /\ ~StartsWithNumber(verif.content)) => ~verif.isValid
       /\ verif.isValid =>
             /\ verif.failure = "" /\ verif.consulted
             /\ StartsWithNumber(verif.content)

C11_Witness ==
    /\ verif.pc = "done" /\ verif.failure = "" /\ verif.consulted
    /\ verif.content = <<"N", "/", "A">>
    /\ ~verif.isValid

\* C12: for every score s the oracle gives and the threshold t of the
\* revision, the claim is accepted exactly when s >= t: s = t is accepted,
\* s = t - 1 is not.
C12_ThresholdBoundary ==
    (Returned(verif) /\ verif.failure = "" /\ verif.consulted /\ ~verif.score.nan)
       => LET s == verif.score.value
              t == ThresholdOf(verif.rev)
          IN /\ verif.isValid <=> s >= t
             /\ s = t => verif.isValid
             /\ s = t - 1 => ~verif.isValid

C12_Witness ==
    /\ Returned(verif) /\ verif.failure = "" /\ ~verif.score.nan
    /\ verif.score.value = ThresholdOf(verif.rev)
    /\ verif.isValid

\* C13: when the decision is reject, no acceptClaim is submitted in that pass
\* and the claim is not accepted on the ledger.
C13_RejectHasNoEffect ==
    (Returned(verif) /\ ~verif.isValid)
       => verif.pc = "done" /\ verif.submitted = 0 /\ ~verif.accepted

\* score 8 under threshold 9
C13_Witness ==
    /\ verif.pc = "done" /\ verif.rev = "part_000"
    /\ ~verif.score.nan /\ verif.score.value = 8
    /\ ~verif.isValid /\ verif.submitted = 0

\* the token metadata read failed, the metadata document could not be fetched
\* or parsed, or it has no image reference
EvidenceFailed(r) ==
    \/ r.failure \in {"tokenURI", "metadataFetch", "metadataParse"}
    \/ r.metadata = "noImage"

\* C14 as stated: when the token metadata read fails, the metadata document
\* cannot be fetched or parsed, it has no image reference, or the image's
\* descriptor cannot be retrieved, the decision is reject, the oracle is not
\* consulted and nothing is settled.
C14_EvidenceFailureTerminal ==
    (Returned(verif)
       /\ (EvidenceFailed(verif) \/ verif.descriptor = "failed"))
       => ~verif.isValid /\ ~verif.consulted /\ verif.submitted = 0

\* C14: when the token metadata read fails, the metadata document cannot be
\* fetched or parsed, or it has no image reference, the decision is reject,
\* the oracle is not consulted and nothing is settled; a failure to retrieve
\* the image's descriptor is only logged and the claim is still scored.
C14_EvidenceFailureTerminalButDescriptor ==
    /\ (Returned(verif) /\ EvidenceFailed(verif))
          => /\ ~verif.isValid /\ ~verif.consulted
             /\ verif.submitted = 0 /\ ~verif.accepted
    /\ verif.descriptor = "failed" => verif.consulted

C14_Witness ==
    /\ verif.pc = "done" /\ verif.metadata = "noImage"
    /\ ~verif.consulted /\ verif.submitted = 0

\* ------------------------------------------------------ failed settlements
\* a callback computes its range: fromBlock = lastProcessedBlock + 1
ComputesRange(t) == tick[t].pc = "getBlockNumber" /\ tick'[t].pc = "queryFilter"

\* C15: when acceptClaim or its confirmation fails the loop goes on: the
\* claim is not handed to the pipeline a second time in that tick, the tick
\* commits a cursor at or above the claim's height, and no range computed
\* after that commit contains the claim again.
C15_FailedSettlementNotRetried ==
    [][\A t \in Ticks :
         /\ \A i, j \in DOMAIN tick'[t].pipeline :
               tick'[t].pipeline[i] = tick'[t].pipeline[j] => i = j
         /\ (Commits(t) /\ tick[t].unsettled # {})
               => \A k \in DOMAIN AllEvents :
                     AllEvents[k].id \in tick[t].unsettled
                        => lastProcessedBlock' >= AllEvents[k].blockNumber
         /\ ComputesRange(t)
               => \A k \in DOMAIN AllEvents :
                     AllEvents[k].id \in failedSettled
                        => AllEvents[k].blockNumber < tick'[t].fromBlock]_vars

\* ---------------------------------------------------------------- issuance
\* the store holds a draft with this title and description under this
\* on-chain identifier
HoldsDraft(content, id) ==
    \E k \in DOMAIN db :
        /\ db[k].title = content.title
        /\ db[k].description = content.description
        /\ db[k].contract_bounty_id = id

\* C16: when no BountyCreated event is extracted from the receipt and the
\* same-block query finds the event with the transaction's hash, createBounty
\* returns that event's identifier without error and the store holds the
\* draft with that identifier.
C16_ScenarioB ==
    \A r \in CreateRuns :
        (create[r].pc = "returned" /\ create[r].via = "polling")
           => /\ create[r].bountyId = toString(create[r].onChain)
              /\ HoldsDraft(create[r].content, create[r].bountyId)

\* C17: on every path on which createBounty resolves an identifier, by the
\* receipt or by the same-block query, the store holds when it returns a
\* draft with the submitted title and description and that identifier.
C17_NoIdentifierDropped ==
    \A r \in CreateRuns :
        create[r].pc = "returned"
           => /\ Truthy(create[r].bountyId)
              /\ HoldsDraft(create[r].content, create[r].bountyId)

\* C18: when the transaction is confirmed and the identifier is found neither
\* in the receipt nor by the same-block query, createBounty fails with the
\* identifier-unresolved error, which no failure of the transaction itself
\* produces.
C18_UnresolvedDistinguishable ==
    \A r \in CreateRuns :
        (create[r].pc \in {"returned", "threw"}
           /\ create[r].confirmed /\ create[r].bountyId = Null)
           => /\ create[r].pc = "threw"
              /\ create[r].error = NotFoundMessage
              /\ create[r].error \notin TxErrors

\* ---------------------------------------------------------------- backfill
\* request b executes its UPDATE in this step
Writes(b) == backfill[b].pc = "dbRun" /\ backfill'[b].wrote

\* bounty n of the ledger has the title and the description of row k
SameText(n, k) ==
    /\ bounties[n].name = db[k].title
    /\ bounties[n].description = db[k].description

\* C19: the on-chain identifier of a draft is written at most once, also when
\* GET /current-bounty requests interleave: an UPDATE only ever hits a row
\* whose contract_bounty_id is still null, and a non-null contract_bounty_id
\* never changes.
C19_WrittenAtMostOnce ==
    [][/\ \A b \in Requests :
             Writes(b) => ~Truthy(db[backfill[b].row].contract_bounty_id)
       /\ \A k \in DOMAIN db :
             Truthy(db[k].contract_bounty_id)
                => db'[k].contract_bounty_id = db[k].contract_bounty_id]_vars

LookupFails(b) ==
    /\ backfill[b].pc = "bounties" /\ backfill'[b] # backfill[b]
    /\ errors' > errors

\* C21: when the lookup of index i fails the scan goes on with index i - 1
\* (it ends only below index 0), so a bounty with the draft's title and
\* description at a lower index is still found: a scan ends without result
\* only if the lookup of every such index failed, and a result is the
\* highest such index whose lookup did not fail.
C21_ScanToleratesFailures ==
    [][\A b \in Requests :
         LET q == backfill[b]
             n == backfill'[b]
         IN /\ LookupFails(b)
                 => IF q.i > 0
                    THEN n.pc = "bounties" /\ n.i = q.i - 1 /\ n.total = q.total
                    ELSE n.pc = "done" /\ ~Truthy(n.contractId)
            /\ (q.pc = "bounties" /\ n.pc = "done")
                 => \A m \in 1..q.total :
                       SameText(m, q.row) => (m - 1) \in n.failedIdx
            /\ (q.pc = "bounties" /\ n.pc = "dbRun")
                 => /\ n.contractId = toString(q.i) /\ SameText(q.i + 1, q.row)
                    /\ \A m \in (q.i + 2)..q.total :
                          SameText(m, q.row) => (m - 1) \in q.failedIdx]_vars

\* a lookup failed at a higher index and the scan returned a lower one
C21_Witness ==
    \E b \in Requests :
        /\ backfill[b].pc = "dbRun"
        /\ \E m \in backfill[b].failedIdx : m > backfill[b].i
        /\ backfill[b].contractId = toString(backfill[b].i)

\* C22: the scan starts at index bountyCount - 1 and goes down one index at a
\* time; at the first index whose record has exactly the draft's title and
\* description it stops and returns that index; it makes at most bountyCount
\* lookups; without a matching index, or when the count cannot be read, it
\* returns null.
C22_ScanOrder ==
    [][\A b \in Requests :
         LET q == backfill[b]
             n == backfill'[b]
         IN /\ (q.pc = "bountyCounter" /\ n.pc = "bounties")
                 => n.total = Len(bounties) /\ n.i = n.total - 1 /\ n.lookups = 1
            /\ (q.pc = "bounties" /\ n.pc = "bounties" /\ n # q)
                 => /\ n.i = q.i - 1 /\ n.i >= 0 /\ n.lookups = q.lookups + 1
                    /\ errors' = errors => ~SameText(q.i + 1, q.row)
            /\ n.lookups <= n.total
            /\ (q.pc = "bounties" /\ n # q /\ errors' = errors
                  /\ SameText(q.i + 1, q.row))
                 => n.pc = "dbRun" /\ n.contractId = toString(q.i)
            /\ (q.pc = "bounties" /\ n.pc = "dbRun" /\ q.failedIdx = {})
                 => \A m \in (q.i + 2)..q.total : ~SameText(m, q.row)
            /\ (q.pc = "bounties" /\ n.pc = "done")
                 => /\ q.i = 0 /\ ~Truthy(n.contractId)
                    /\ errors' = errors => ~SameText(1, q.row)
            /\ (q.pc = "bountyCounter" /\ n.pc = "done")
                 => /\ ~Truthy(n.contractId) /\ n.lookups = 0
                    /\ errors' > errors \/ Len(bounties) = 0]_vars

\* a scan passed a record that does not match and stopped at one that does
C22_Witness ==
    \E b \in Requests :
        /\ backfill[b].pc = "dbRun" /\ backfill[b].failedIdx = {}
        /\ backfill[b].lookups >= 2
        /\ backfill[b].contractId = toString(backfill[b].total - backfill[b].lookups)

\* ------------------------------------------------------ fallback generation
\* C23: from an empty used-set, K calls of the fallback generator (K the
\* length of the fallback list) return K pairwise distinct titles, and every
\* call, the (K+1)-th included, returns an entry of the list with a title and
\* a description.
C23_FallbackRotation ==
    /\ fallbackLog.calls <= Len(fallbackBounties)
          => Cardinality(fallbackLog.titles) = fallbackLog.calls
    /\ fallbackLog.calls >= 1
          => /\ \E i \in DOMAIN fallbackBounties : fallbackLog.last = fallbackBounties[i]
             /\ fallbackLog.last.title # "" /\ fallbackLog.last.description # ""

\* the (K+1)-th call has returned
C23_Witness ==
    /\ fallbackLog.calls = Len(fallbackBounties) + 1
    /\ Cardinality(fallbackLog.titles) = Len(fallbackBounties)
    /\ \E i \in DOMAIN fallbackBounties : fallbackLog.last = fallbackBounties[i]

\* generateBountyIdea of run r is between its entry and its return
Generating(r) == create[r].pc \in {"dbAll", "fetch", "dbRunDraft"}

\* C24: a failure inside generateBountyIdea (the store read, the service
\* call, the parse of its reply, the store write) never leaves createBounty
\* with an error: the function returns an entry of the fallback list with a
\* title and a description, and createBounty goes on to the submission.
C24_GenerationNeverFails ==
    [][\A r \in CreateRuns :
          (Generating(r) /\ create'[r] # create[r])
             => /\ create'[r].pc \in {"fetch", "dbRunDraft", "createSoloBounty"}
                /\ errors' > errors
                      => /\ create'[r].pc = "createSoloBounty"
                         /\ create'[r].fallback
                         /\ \E i \in DOMAIN fallbackBounties :
                               create'[r].content = fallbackBounties[i]
                         /\ create'[r].content.title # ""
                         /\ create'[r].content.description # ""]_vars

\* a run whose generation failed holds a fallback entry and is about to submit
C24_Witness ==
    \E r \in CreateRuns :
       /\ create[r].pc = "createSoloBounty"
       /\ create[r].fallback
       /\ errors >= 1
       /\ \E i \in DOMAIN fallbackBounties : create[r].content = fallbackBounties[i]

\* ---------------------------------------------------------- failure escape
\* C25: no failure of an external call escapes a callback unhandled: the
\* process keeps running, the startup callback does not end in a rejection
\* and no poll tick ends in a rejection that nothing catches.
C25_NoFailureEscapes ==
    /\ alive
    /\ main # "failed"
    /\ lastDone.result # "unhandled"

\* ------------------------------------------------------------ hung calls
\* C26: while the process lives, every tick that has left Idle returns to
\* Idle, also when a call it awaits never answers.
C26_TickReturnsToIdle ==
    \A t \in Ticks : []<>(tick[t].pc = "idle" \/ ~alive)

\* ------------------------------------------------------- single submission
\* C27: one run of createBounty calls createSoloBounty at most once: not
\* before the content is there, once from then on, and a run that ends with
\* an error has submitted once and not again.
C27_NoBlindResubmission ==
    \A r \in CreateRuns :
       /\ create[r].submitted <= 1
       /\ create[r].submitted = (IF create[r].pc = "idle" \/ Generating(r) THEN 0 ELSE 1)

\* a run that failed after its submission
C27_Witness ==
    \E r \in CreateRuns :
       /\ create[r].pc = "threw"
       /\ create[r].error \in TxErrors
       /\ create[r].submitted = 1

\* ----------------------------------------------------------- append-only
\* C28: no step removes a row of the store or changes the title, the
\* description or the creation time of a row that is there: rows are only
\* added, and only contract_bounty_id of an existing row is written.
C28_StoreAppendOnly ==
    [][/\ Len(db') >= Len(db)
       /\ \A k \in DOMAIN db :
             /\ db'[k].title = db[k].title
             /\ db'[k].description = db[k].description
             /\ db'[k].created_at = db[k].created_at]_vars

\* rows were added and an older row got its identifier written later
C28_Witness ==
    /\ Len(db) >= 2
    /\ \E b \in Requests :
          /\ backfill[b].wrote
          /\ db[backfill[b].row].created_at < now
          /\ Truthy(db[backfill[b].row].contract_bounty_id)

\* ------------------------------------------------------- cursor ownership
\* the step writes the cursor as the loop does: setupClaimListener sets it,
\* a tick that has handled its range commits it
LoopWritesCursor ==
    \/ main = "setupClaimListener" /\ main' = "running"
    \/ \E t \in Ticks :
          /\ tick[t].pc \notin {"idle", "initializeContract"}
          /\ tick'[t].pc = "idle"
          /\ lastDone'.result = "committed"

\* the step belongs to initializeContract: it enters it, or resumes it
InitializeContractStep ==
    \/ main \in {"start", "initializeContract"} /\ main' # main
    \/ \E t \in Ticks :
          /\ tick'[t] # tick[t]
          /\ tick[t].pc = "initializeContract" \/ tick'[t].pc = "initializeContract"

\* C29: the cursor has one writer, the loop. A step of createBounty (its
\* call of generateBountyIdea included), of GET /current-bounty or of
\* initializeContract leaves lastProcessedBlock as it is, and a step of
\* createBounty taken while a tick is in progress changes neither the
\* module's provider and contract nor the cursor.
C29_CursorSingleWriter ==
    [][/\ lastProcessedBlock' # lastProcessedBlock => LoopWritesCursor
       /\ InitializeContractStep => lastProcessedBlock' = lastProcessedBlock
       /\ (create' # create \/ backfill' # backfill \/ db' # db
             \/ usedFallbackIndices' # usedFallbackIndices)
            => /\ lastProcessedBlock' = lastProcessedBlock
               /\ provider' = provider
               /\ contract' = contract]_vars

\* a createBounty run has submitted its transaction while a tick waits for
\* its events, after the loop has moved the cursor
C29_Witness ==
    /\ create[1].pc = "wait"
    /\ tick[1].pc = "queryFilter"
    /\ lastProcessedBlock > startHeight
    /\ contract = provider

\* ------------------------------------------------------------ query range
\* C30: every queryFilter the loop issues asks for the blocks from the
\* cursor's successor, as the cursor is when the query is issued, up to the
\* height the callback has just read, and that range is not empty; this holds
\* for every callback when several are in progress.
C30_QueryRange ==
    [][\A t \in Ticks :
          /\ ComputesRange(t)
                => /\ tick'[t].fromBlock = lastProcessedBlock + 1
                   /\ tick'[t].latestBlock = getBlockNumber
                   /\ tick'[t].fromBlock <= tick'[t].latestBlock
          /\ tick'[t].pc = "queryFilter"
                => tick'[t].fromBlock <= tick'[t].latestBlock]_vars

\* two callbacks have their queries pending, issued at different heights
C30_Witness ==
    \E t, u \in Ticks :
       /\ tick[t].pc = "queryFilter" /\ tick[u].pc = "queryFilter"
       /\ tick[t].latestBlock < tick[u].latestBlock
       /\ tick[t].fromBlock = lastProcessedBlock + 1
       /\ tick[u].fromBlock = lastProcessedBlock + 1

\* ----------------------------------------------------------------- coverage
\* C31: every height above the startup height and at or below the cursor lies
\* inside the range of a query that returned and whose callback handled all
\* its events and committed: the cursor is never past a height that no
\* completed query covered.
C31_NoGaps ==
    main = "running"
       => \A h \in 1..MaxHeight :
             (startHeight < h /\ h <= lastProcessedBlock) => h \in covered

\* the cursor is two blocks above the startup height after a failed poll
C31_Witness ==
    /\ main = "running"
    /\ lastProcessedBlock >= startHeight + 2
    /\ errors >= 1
    /\ (startHeight + 1)..lastProcessedBlock \subseteq covered

\* ------------------------------------------------------- single settlement
\* C32: acceptClaim is submitted at most once for a claim, over all callbacks
\* and their interleavings; in particular no two callbacks wait for the receipt
\* of an acceptClaim transaction of the same claim.
C32_SettledByOneTick ==
    \A t, u \in Ticks :
       (t # u /\ tick[t].pc = "wait" /\ tick[u].pc = "wait")
          => CurrentEvent(t).id # CurrentEvent(u).id

\* ------------------------------------------------------ drafts per creation
\* C33: a createBounty run that returns an identifier has added exactly one
\* row to the store, whether the content came from the generative service or
\* from the fallback list and whether the identifier came from the receipt or
\* from the same-block query.
C33_OneDraftPerCreate ==
    \A r \in CreateRuns :
       create[r].pc = "returned" => create[r].inserted = 1

\* C34: a createBounty run whose transaction was not submitted or not
\* confirmed has added no row to the store.
C34_FailedCreateLeavesStore ==
    \A r \in CreateRuns :
       (create[r].pc = "threw" /\ ~create[r].confirmed) => create[r].inserted = 0

\* C35: no two rows of the store carry the same non-null contract_bounty_id.
C35_UniqueIdentifiers ==
    \A j, k \in DOMAIN db :
       (j # k /\ Truthy(db[j].contract_bounty_id))
          => db[j].contract_bounty_id # db[k].contract_bounty_id

\* --------------------------------------------------- identifier provenance
\* C36: the identifier createBounty returns is that of the BountyCreated
\* event of the run's own transaction, on the receipt path and on the
\* same-block query path, also when the block holds a BountyCreated event of
\* another transaction.
C36_OwnTransactionEvent ==
    \A r \in CreateRuns :
       create[r].pc = "returned"
          => /\ create[r].bountyId = toString(create[r].onChain)
             /\ create[r].onChain + 1 \in DOMAIN bounties
             /\ bounties[create[r].onChain + 1].tx = r

\* a run got its identifier from the same-block query while the query also
\* returned the event of another run's transaction, emitted earlier
C36_Witness ==
    \E r \in CreateRuns :
       /\ create[r].pc = "returned"
       /\ create[r].via = "polling"
       /\ create[r].onChain >= 1
       /\ bounties[1].tx # r
       /\ create[r].bountyId = toString(create[r].onChain)

\* ------------------------------------------------------- used-fallback set
\* the index of the entry the call of this step returns
Drawn == CHOOSE i \in FallbackIndices : fallbackBounties[i + 1] = fallbackLog'.last

\* C37: usedFallbackIndices holds indices of the list only; a call of the
\* fallback generator returns an index that is not in the set when it is
\* selected and adds it; the set is cleared only when it holds every index,
\* and then holds the newly selected index alone.
C37_UsedSetDiscipline ==
    [][/\ usedFallbackIndices \subseteq FallbackIndices
       /\ usedFallbackIndices' \subseteq FallbackIndices
       /\ fallbackLog' # fallbackLog
             => IF usedFallbackIndices = FallbackIndices
                THEN usedFallbackIndices' = {Drawn}
                ELSE /\ Drawn \notin usedFallbackIndices
                     /\ usedFallbackIndices' = usedFallbackIndices \cup {Drawn}
       /\ fallbackLog' = fallbackLog
             => usedFallbackIndices' = usedFallbackIndices]_vars

\* the set was full, was cleared by the next call and holds that call's index
C37_Witness ==
    /\ fallbackLog.calls = Len(fallbackBounties) + 1
    /\ Cardinality(usedFallbackIndices) = 1
    /\ \E i \in usedFallbackIndices : fallbackLog.last = fallbackBounties[i + 1]

\* -------------------------------------------------------------- score scale
\* C38: a claim is accepted only when the parsed score s is an integer with
\* threshold <= s <= 10; a reply that parses to an integer above the scale
\* does not lead to acceptance.
C38_ScoreWithinScale ==
    (Returned(verif) /\ verif.isValid)
       => /\ ~verif.score.nan
          /\ ThresholdOf(verif.rev) <= verif.score.value
          /\ verif.score.value <= ScaleMax

\* ------------------------------------------------------- shared connection
\* C39: when no call of initializeContract is in progress in the running
\* loop, the module's contract is bound to the module's provider, also after
\* a call of initializeContract that failed.
C39_SameConnection ==
    (/\ alive /\ main = "running"
     /\ \A t \in Ticks : tick[t].pc # "initializeContract")
       => contract = provider

====
